---- MODULE Spec2Model ----
(***************************************************************************)
(* Subscription verification strategies of app_services.users:             *)
(*   VerifySubscriptionFranchise1.verify  (direct strategy)                *)
(*   VerifySubscriptionFranchise2.verify  (resolving strategy)             *)
(* run against stub CoreApiClient / FranchiseApiClient collaborators.      *)
(*                                                                         *)
(* Python values are encoded uniformly as records so that any two values   *)
(* can be compared: None is [type |-> "NoneType"], a str or UUID s is      *)
(* [type |-> "str", value |-> s], and a dict is the record of its keys.    *)
(* A key that a dict does not carry is simply not in its DOMAIN; reading   *)
(* it with d[k] raises KeyError, as in Python.                             *)
(***************************************************************************)
EXTENDS Naturals, Sequences, FiniteSets, TLC

VARIABLES
    strategy,                 \* which implementation the caller wired
    franchise_api_client,     \* stub: answers given so far, per argument
    core_api_client,          \* stub: answers given so far, per argument
    pc,                       \* position inside verify
    call,                     \* the arguments verify was invoked with
    metadata,                 \* verify's parameter / local
    subscription_id,          \* verify's parameter / local (rebound at line 35)
    subscription_external_id, \* verify's parameter
    user_subscription_info,   \* local of Franchise2.verify
    result,                   \* local of Franchise1.verify
    calls,                    \* client calls made by the running verify, in order
    examined,                 \* keys of user_subscription_info read so far
    outcome,                  \* how verify ended: a returned value or a raised fault
    prev,                     \* the previous completed verify on the same clients
    ncalls                    \* verify invocations so far

vars == <<strategy, franchise_api_client, core_api_client, pc, call, metadata,
          subscription_id, subscription_external_id, user_subscription_info,
          result, calls, examined, outcome, prev, ncalls>>

-----------------------------------------------------------------------------
(* Bounds *)

MaxCalls == 2

-----------------------------------------------------------------------------
(* Python values *)

None == [type |-> "NoneType"]
Str(s) == [type |-> "str", value |-> s]

Unbound == [type |-> "unbound"]      \* a local not assigned yet
Unset == [kind |-> "unset"]          \* a stub argument not asked yet

Return(v) == [kind |-> "return", value |-> v]
Raise(e) == [kind |-> "raise", exc |-> e]

\* d[k] on a dict: the value, or KeyError when the key is not in the mapping
HasKey(d, k) == k \in DOMAIN d
GetItem(d, k) == IF HasKey(d, k) THEN Return(d[k]) ELSE Raise("KeyError")

-----------------------------------------------------------------------------
(* Inputs *)

Metadatas == { [plan |-> Str("gold")], <<>> }
SubscriptionIds == { Str("sub-9"), None }
ExternalIds == { Str("ext-42"), None }

ResolvedIds == { Str("sub-7"), Str("sub-8") }
Statuses == { Str("active"), Str("cancelled"), Str("expired"), Str("") }

\* the dicts a franchise backend may answer with: status and id each present
\* or not, id possibly null
SubscriptionInfos ==
    { [status |-> s, id |-> i] : s \in Statuses, i \in ResolvedIds \cup {None} }
    \cup { [status |-> s] : s \in Statuses }
    \cup { [id |-> i] : i \in ResolvedIds \cup {None} }
    \cup { <<>> }

UpstreamFaults == { "ConnectionError", "TimeoutError" }

\* FranchiseApiClient.get_user_subscription_info: a dict, None, or a fault
FranchiseOutcomes ==
    { Return(d) : d \in SubscriptionInfos } \cup { Return(None) }
    \cup { Raise(e) : e \in UpstreamFaults }

\* CoreApiClient.verify_subscription: whatever dict the core answers, or a fault
CoreResults ==
    { [status |-> Str("ok")],
      [status |-> Str("error"), message |-> Str("User subscription is not active")] }
CoreOutcomes ==
    { Return(d) : d \in CoreResults } \cup { Raise(e) : e \in UpstreamFaults }

CoreArgs == (SubscriptionIds \cup ResolvedIds) \X Metadatas

-----------------------------------------------------------------------------
(* Stub collaborators: deterministic, their answers fixed on first use *)

\* the answers the stub may give to args: the one it gave before, else any
Answers(stub, args, all) ==
    IF stub[args] = Unset THEN all ELSE { stub[args] }

CallRecord(method, args, out) == [method |-> method, args |-> args, out |-> out]


\* one client call: the stub's answer is remembered and the call is logged
FranchiseAsk(args, out) ==
    /\ out \in Answers(franchise_api_client, args, FranchiseOutcomes)
    /\ franchise_api_client' = [franchise_api_client EXCEPT ![args] = out]
    /\ calls' = Append(calls, CallRecord("get_user_subscription_info", args, out))
    /\ UNCHANGED core_api_client

CoreAsk(args, out) ==
    /\ out \in Answers(core_api_client, args, CoreOutcomes)
    /\ core_api_client' = [core_api_client EXCEPT ![args] = out]
    /\ calls' = Append(calls, CallRecord("verify_subscription", args, out))
    /\ UNCHANGED franchise_api_client

-----------------------------------------------------------------------------
(* How a verify activation ends *)

Running == [kind |-> "running"]
NoPrev == [kind |-> "none"]

Finish(out) ==
    /\ pc' = "done"
    /\ outcome' = out

-----------------------------------------------------------------------------
(* Init: the caller has constructed one strategy over fresh stub clients *)

Init ==
    /\ strategy \in { "Franchise1", "Franchise2" }
    /\ franchise_api_client = [a \in { <<e>> : e \in ExternalIds } |-> Unset]
    /\ core_api_client = [a \in CoreArgs |-> Unset]
    /\ pc = "idle"
    /\ call = NoPrev
    /\ metadata = Unbound
    /\ subscription_id = Unbound
    /\ subscription_external_id = Unbound
    /\ user_subscription_info = Unbound
    /\ result = Unbound
    /\ calls = <<>>
    /\ examined = {}
    /\ outcome = Running
    /\ prev = NoPrev
    /\ ncalls = 0

\* the completed activation, as the caller observed it
Completed == [call |-> call, calls |-> calls, outcome |-> outcome]

\* binding of the parameters on entry to verify
Enter(md, sid, ext, first) ==
    /\ pc \in { "idle", "done" }
    /\ ncalls < MaxCalls
    /\ ncalls' = ncalls + 1
    /\ prev' = IF pc = "done" THEN Completed ELSE prev
    /\ call' = [metadata |-> md, subscription_id |-> sid,
                subscription_external_id |-> ext]
    /\ metadata' = md
    /\ subscription_id' = sid
    /\ subscription_external_id' = ext
    /\ user_subscription_info' = Unbound
    /\ result' = Unbound
    /\ calls' = <<>>
    /\ examined' = {}
    /\ outcome' = Running
    /\ pc' = first
    /\ UNCHANGED <<strategy, franchise_api_client, core_api_client>>

-----------------------------------------------------------------------------
(* VerifySubscriptionFranchise1.verify *)

F1_verify(md, sid, ext) ==
    /\ strategy = "Franchise1"
    /\ Enter(md, sid, ext, "F1_18")

\* variant: the metadata is dropped on the way to the core client
F1_CoreArgs_NoMetadata == <<subscription_id, <<>> >>

\* the arguments of the core call at line 18
F1_CoreArgs == <<subscription_id, metadata>>

\* result = self.core_api_client.verify_subscription(subscription_id, metadata)
F1_L18 ==
    /\ pc = "F1_18"
    /\ \E out \in CoreOutcomes :
        /\ CoreAsk(F1_CoreArgs, out)
        /\ IF out.kind = "raise"
             THEN /\ Finish(out)
                  /\ UNCHANGED result
             ELSE /\ result' = out.value
                  /\ pc' = "F1_19"
                  /\ UNCHANGED outcome
    /\ UNCHANGED <<strategy, call, metadata, subscription_id,
                   subscription_external_id, user_subscription_info,
                   examined, prev, ncalls>>

\* return result
F1_L19 ==
    /\ pc = "F1_19"
    /\ Finish(Return(result))
    /\ UNCHANGED <<strategy, franchise_api_client, core_api_client, call,
                   metadata, subscription_id, subscription_external_id,
                   user_subscription_info, result, calls, examined, prev, ncalls>>

-----------------------------------------------------------------------------
(* VerifySubscriptionFranchise2.verify *)

F2_verify(md, sid, ext) ==
    /\ strategy = "Franchise2"
    /\ Enter(md, sid, ext, "F2_22")

\* variant: the external id is not handed to the franchise client
F2_FranchiseArgs_None == <<None>>

\* the argument of the franchise call at lines 22-24
F2_FranchiseArgs == <<subscription_external_id>>

\* variant: a fault of the franchise client is swallowed and read as "no record"
F2_L22_Catching ==
    /\ pc = "F2_22"
    /\ \E out \in FranchiseOutcomes :
        /\ FranchiseAsk(F2_FranchiseArgs, out)
        /\ user_subscription_info' = IF out.kind = "raise" THEN None ELSE out.value
        /\ pc' = "F2_25"
        /\ UNCHANGED outcome
    /\ UNCHANGED <<strategy, call, metadata, subscription_id,
                   subscription_external_id, result, examined, prev, ncalls>>

\* user_subscription_info = self.franchise_api_client.get_user_subscription_info(...)
F2_L22 ==
    /\ pc = "F2_22"
    /\ \E out \in FranchiseOutcomes :
        /\ FranchiseAsk(F2_FranchiseArgs, out)
        /\ IF out.kind = "raise"
             THEN /\ Finish(out)
                  /\ UNCHANGED user_subscription_info
             ELSE /\ user_subscription_info' = out.value
                  /\ pc' = "F2_25"
                  /\ UNCHANGED outcome
    /\ UNCHANGED <<strategy, call, metadata, subscription_id,
                   subscription_external_id, result, examined, prev, ncalls>>

\* variant: the not-found branch answers with the inactive message
NotFoundResult_Inactive ==
    [status |-> Str("error"), message |-> Str("User subscription is not active")]

NotFoundResult ==
    [status |-> Str("error"), message |-> Str("User subscription not found")]

NotActiveResult ==
    [status |-> Str("error"), message |-> Str("User subscription is not active")]

IdNotFoundResult ==
    [status |-> Str("error"), message |-> Str("Subscription id not found")]

\* if user_subscription_info is None: return {...}
F2_L25 ==
    /\ pc = "F2_25"
    /\ IF user_subscription_info = None
         THEN Finish(Return(NotFoundResult))
         ELSE /\ pc' = "F2_30"
              /\ UNCHANGED outcome
    /\ UNCHANGED <<strategy, franchise_api_client, core_api_client, call,
                   metadata, subscription_id, subscription_external_id,
                   user_subscription_info, result, calls, examined, prev, ncalls>>

\* variant: only the known inactive statuses are refused
IsNotActive_Listed(status) == status \in { Str("cancelled"), Str("expired") }

\* the test of line 30 on the status read from the record
IsNotActive(status) == status # Str("active")

\* variant: the id is read and tested before the status
F2_L30_IdFirst ==
    /\ pc = "F2_30"
    /\ LET gotId == GetItem(user_subscription_info, "id")
           gotStatus == GetItem(user_subscription_info, "status") IN
         IF gotId.kind = "raise"
           THEN /\ Finish(gotId)
                /\ examined' = examined \cup { "id" }
           ELSE IF gotId.value = None
                  THEN /\ Finish(Return(IdNotFoundResult))
                       /\ examined' = examined \cup { "id" }
                  ELSE /\ examined' = examined \cup { "id", "status" }
                       /\ IF gotStatus.kind = "raise"
                            THEN Finish(gotStatus)
                            ELSE IF IsNotActive(gotStatus.value)
                                   THEN Finish(Return(NotActiveResult))
                                   ELSE /\ pc' = "F2_35"
                                        /\ UNCHANGED outcome
    /\ UNCHANGED <<strategy, franchise_api_client, core_api_client, call,
                   metadata, subscription_id, subscription_external_id,
                   user_subscription_info, result, calls, prev, ncalls>>

\* if user_subscription_info["status"] != "active": return {...}
F2_L30 ==
    /\ pc = "F2_30"
    /\ examined' = examined \cup { "status" }
    /\ LET got == GetItem(user_subscription_info, "status") IN
         IF got.kind = "raise"
           THEN Finish(got)
           ELSE IF IsNotActive(got.value)
                  THEN Finish(Return(NotActiveResult))
                  ELSE /\ pc' = "F2_35"
                       /\ UNCHANGED outcome
    /\ UNCHANGED <<strategy, franchise_api_client, core_api_client, call,
                   metadata, subscription_id, subscription_external_id,
                   user_subscription_info, result, calls, prev, ncalls>>

\* variant: a missing or null id falls back to the caller's subscription_id
F2_L35_Fallback ==
    /\ pc = "F2_35"
    /\ examined' = examined \cup { "id" }
    /\ subscription_id' =
         IF HasKey(user_subscription_info, "id") /\ user_subscription_info["id"] # None
           THEN user_subscription_info["id"]
           ELSE subscription_id
    /\ pc' = "F2_36"
    /\ UNCHANGED <<strategy, franchise_api_client, core_api_client, call,
                   metadata, subscription_external_id, outcome,
                   user_subscription_info, result, calls, prev, ncalls>>

\* subscription_id = user_subscription_info["id"]
F2_L35 ==
    /\ pc = "F2_35"
    /\ examined' = examined \cup { "id" }
    /\ LET got == GetItem(user_subscription_info, "id") IN
         IF got.kind = "raise"
           THEN /\ Finish(got)
                /\ UNCHANGED subscription_id
           ELSE /\ subscription_id' = got.value
                /\ pc' = "F2_36"
                /\ UNCHANGED outcome
    /\ UNCHANGED <<strategy, franchise_api_client, core_api_client, call,
                   metadata, subscription_external_id,
                   user_subscription_info, result, calls, prev, ncalls>>

\* variant: the null test of line 36 is missing
F2_L36_NoCheck ==
    /\ pc = "F2_36"
    /\ pc' = "F2_42"
    /\ UNCHANGED <<strategy, franchise_api_client, core_api_client, call,
                   metadata, subscription_id, subscription_external_id,
                   user_subscription_info, result, calls, examined, outcome,
                   prev, ncalls>>

\* if subscription_id is None: return {...}
F2_L36 ==
    /\ pc = "F2_36"
    /\ IF subscription_id = None
         THEN Finish(Return(IdNotFoundResult))
         ELSE /\ pc' = "F2_42"
              /\ UNCHANGED outcome
    /\ UNCHANGED <<strategy, franchise_api_client, core_api_client, call,
                   metadata, subscription_id, subscription_external_id,
                   user_subscription_info, result, calls, examined, prev, ncalls>>

\* variant: the caller's subscription_id is forwarded, not the resolved one
F2_CoreArgs_Input == <<call.subscription_id, metadata>>

\* the arguments of the core call at line 42
F2_CoreArgs == <<subscription_id, metadata>>

\* return self.core_api_client.verify_subscription(subscription_id, metadata)
F2_L42 ==
    /\ pc = "F2_42"
    /\ \E out \in CoreOutcomes :
        /\ CoreAsk(F2_CoreArgs, out)
        /\ Finish(out)
    /\ UNCHANGED <<strategy, call, metadata, subscription_id,
                   subscription_external_id, user_subscription_info, result,
                   examined, prev, ncalls>>

-----------------------------------------------------------------------------

Next ==
    \/ \E md \in Metadatas, sid \in SubscriptionIds, ext \in ExternalIds :
          F1_verify(md, sid, ext)
    \/ F1_L18
    \/ F1_L19
    \/ \E md \in Metadatas, sid \in SubscriptionIds, ext \in ExternalIds :
          F2_verify(md, sid, ext)
    \/ F2_L22
    \/ F2_L25
    \/ F2_L30
    \/ F2_L35
    \/ F2_L36
    \/ F2_L42

Spec == Init /\ [][Next]_vars

-----------------------------------------------------------------------------
(* Vocabulary of the properties *)

Direct == strategy = "Franchise1"
Resolving == strategy = "Franchise2"
Done == pc = "done"

IsCoreCall(c) == c.method = "verify_subscription"
IsFranchiseCall(c) == c.method = "get_user_subscription_info"
CoreCalls == SelectSeq(calls, IsCoreCall)
FranchiseCalls == SelectSeq(calls, IsFranchiseCall)

\* the franchise client has answered (not raised) in the running verify
Looked ==
    /\ calls # <<>>
    /\ IsFranchiseCall(calls[1])
    /\ calls[1].out.kind = "return"
Info == calls[1].out.value

ErrorMapping(msg) == [status |-> Str("error"), message |-> Str(msg)]

ActiveWithId(r) ==
    /\ r # None
    /\ HasKey(r, "status") /\ r["status"] = Str("active")
    /\ HasKey(r, "id") /\ r["id"] # None
ActiveNullId(r) ==
    /\ r # None
    /\ HasKey(r, "status") /\ r["status"] = Str("active")
    /\ HasKey(r, "id") /\ r["id"] = None
ActiveNoId(r) ==
    /\ r # None
    /\ HasKey(r, "status") /\ r["status"] = Str("active")
    /\ ~HasKey(r, "id")
Inactive(r) ==
    /\ r # None
    /\ HasKey(r, "status") /\ r["status"] # Str("active")

-----------------------------------------------------------------------------
\* C1: resolving strategy: when the franchise client answers a record with
\* status "active" and a non-null id X, verify calls the core client exactly
\* once, with (X, metadata), and ends with exactly what that call produced.
C1_Success ==
    (Resolving /\ Done /\ Looked /\ ActiveWithId(Info)) =>
        /\ Len(CoreCalls) = 1
        /\ CoreCalls[1].args = <<Info["id"], call.metadata>>
        /\ outcome = CoreCalls[1].out

\* reached: a resolved id that differs from the caller's subscription_id, and a
\* core answer that looks like a local error mapping, returned as it is
C1_Witness ==
    /\ Resolving /\ Done /\ Looked /\ ActiveWithId(Info)
    /\ Info["id"] = Str("sub-8")
    /\ call.subscription_id = Str("sub-9")
    /\ call.metadata = [plan |-> Str("gold")]
    /\ outcome = Return(ErrorMapping("User subscription is not active"))

\* C2: direct strategy: verify makes exactly one client call,
\* verify_subscription(subscription_id, metadata), no other client call, and
\* ends with exactly what that call produced.
C2_Direct ==
    Direct =>
        /\ Len(calls) <= 1
        /\ \A i \in DOMAIN calls : IsCoreCall(calls[i])
        /\ Done =>
            /\ Len(calls) = 1
            /\ calls[1].args = <<call.subscription_id, call.metadata>>
            /\ outcome = calls[1].out

C2_Witness ==
    /\ Direct /\ Done
    /\ call.subscription_id = Str("sub-9")
    /\ call.subscription_external_id = Str("ext-42")
    /\ call.metadata = [plan |-> Str("gold")]
    /\ outcome = Return([status |-> Str("ok")])

\* C3: resolving strategy: when the franchise client answers None, verify
\* returns {"status": "error", "message": "User subscription not found"} and the
\* core client is never called during that verify.
C3_NotFound ==
    (Resolving /\ Looked /\ Info = None) =>
        /\ CoreCalls = <<>>
        /\ pc \in { "F2_25", "done" }
        /\ Done => outcome = Return(ErrorMapping("User subscription not found"))

C3_Witness ==
    /\ Resolving /\ Done /\ Looked /\ Info = None
    /\ call.subscription_id = Str("sub-9")
    /\ outcome = Return(ErrorMapping("User subscription not found"))

\* C4: resolving strategy: when the franchise record's status is anything but
\* exactly "active" ("cancelled", "expired", the empty string), verify returns
\* {"status": "error", "message": "User subscription is not active"} and the
\* core client is never called during that verify.
C4_NotActive ==
    (Resolving /\ Looked /\ Inactive(Info)) =>
        /\ CoreCalls = <<>>
        /\ pc \in { "F2_25", "F2_30", "done" }
        /\ Done => outcome = Return(ErrorMapping("User subscription is not active"))

C4_Witness ==
    /\ Resolving /\ Done /\ Looked
    /\ Info = [status |-> Str(""), id |-> Str("sub-7")]
    /\ outcome = Return(ErrorMapping("User subscription is not active"))

\* C5: resolving strategy: when the franchise record is active and its id is
\* present but None, verify returns
\* {"status": "error", "message": "Subscription id not found"} and the core
\* client is never called during that verify.
C5_NullId ==
    (Resolving /\ Looked /\ ActiveNullId(Info)) =>
        /\ CoreCalls = <<>>
        /\ pc \in { "F2_25", "F2_30", "F2_35", "F2_36", "done" }
        /\ Done => outcome = Return(ErrorMapping("Subscription id not found"))

C5_Witness ==
    /\ Resolving /\ Done /\ Looked
    /\ Info = [status |-> Str("active"), id |-> None]
    /\ outcome = Return(ErrorMapping("Subscription id not found"))

\* C6: resolving strategy: an active franchise record without an id key is
\* treated like one whose id is None: verify returns
\* {"status": "error", "message": "Subscription id not found"}, raises no fault
\* of its own, and never calls the core client.
C6_AbsentIdAsNull ==
    (Resolving /\ Done /\ Looked /\ ActiveNoId(Info)) =>
        /\ CoreCalls = <<>>
        /\ outcome = Return(ErrorMapping("Subscription id not found"))

\* C7: in either strategy a fault raised by a client call ends verify with that
\* same fault: no further step is taken, no mapping is returned; and when the
\* franchise call raises, the core client is never called.
C7_FaultsPropagate ==
    /\ \A i \in DOMAIN calls :
          calls[i].out.kind = "raise" =>
              /\ i = Len(calls)
              /\ Done
              /\ outcome = calls[i].out
    /\ (Resolving /\ calls # <<>> /\ calls[1].out.kind = "raise") => CoreCalls = <<>>

C7_Witness ==
    /\ Resolving /\ Done
    /\ Len(calls) = 1
    /\ calls[1].out = Raise("ConnectionError")
    /\ outcome = Raise("ConnectionError")

\* C8: two verify calls on the same deterministic clients that differ only in
\* the argument the strategy does not need (subscription_external_id for the
\* direct strategy, subscription_id for the resolving one) make the same client
\* calls with the same arguments and end the same way; and no verify ends
\* without having reached its first client call, whichever identifiers it got.
DifferOnlyInIgnored ==
    /\ Done
    /\ prev # NoPrev
    /\ prev.call.metadata = call.metadata
    /\ IF Direct
         THEN /\ prev.call.subscription_id = call.subscription_id
              /\ prev.call.subscription_external_id # call.subscription_external_id
         ELSE /\ prev.call.subscription_external_id = call.subscription_external_id
              /\ prev.call.subscription_id # call.subscription_id

C8_IgnoredArgument ==
    /\ DifferOnlyInIgnored =>
          /\ prev.calls = calls
          /\ prev.outcome = outcome
    /\ Done => calls # <<>>

C8_Witness ==
    /\ Resolving /\ DifferOnlyInIgnored
    /\ Looked /\ ActiveNullId(Info)
    /\ prev.call.subscription_id = None
    /\ call.subscription_id = Str("sub-9")
    /\ prev.outcome = outcome

\* C9: resolving strategy: get_user_subscription_info is the first client call,
\* made with the caller's subscription_external_id, exactly once per verify;
\* verify_subscription is called at most once, only after the franchise call
\* has returned, and exactly when the record is present, active and carries a
\* non-null id.
C9_CallOrder ==
    Resolving =>
        /\ Len(FranchiseCalls) <= 1
        /\ Len(CoreCalls) <= 1
        /\ calls # <<>> =>
              /\ IsFranchiseCall(calls[1])
              /\ calls[1].args = <<call.subscription_external_id>>
        /\ \A i \in DOMAIN calls :
              IsCoreCall(calls[i]) => (i = 2 /\ calls[1].out.kind = "return")
        /\ Done =>
              /\ Len(FranchiseCalls) = 1
              /\ (Len(CoreCalls) = 1) <=> (Looked /\ ActiveWithId(Info))

C9_Witness ==
    /\ Resolving /\ Done
    /\ call.subscription_external_id = Str("ext-42")
    /\ Len(calls) = 2
    /\ IsFranchiseCall(calls[1]) /\ IsCoreCall(calls[2])

\* C10: resolving strategy: existence is tested before status and status
\* before id, and the first failing test alone decides the error: a record that
\* is not active and whose id is null or absent yields "User subscription is
\* not active", and its id is not read.
C10_CheckOrder ==
    (Resolving /\ Looked) =>
        /\ Info = None => examined = {}
        /\ "id" \in examined =>
              /\ "status" \in examined
              /\ HasKey(Info, "status") /\ Info["status"] = Str("active")
        /\ (Done /\ Inactive(Info) /\ (~HasKey(Info, "id") \/ Info["id"] = None)) =>
              /\ outcome = Return(ErrorMapping("User subscription is not active"))
              /\ "id" \notin examined

C10_Witness ==
    /\ Resolving /\ Done /\ Looked
    /\ Info = [status |-> Str("expired")]
    /\ examined = { "status" }
    /\ outcome = Return(ErrorMapping("User subscription is not active"))

=============================================================================
